---- MODULE Spec2Model ----
(***************************************************************************)
(* memento-mori: life-in-weeks calculator.                                 *)
(*                                                                         *)
(* Model of src/memento_mori/core.py (LifeStats, FreeTimeStats,            *)
(* WorkLifeStats, ParentTimeStats, WeekendStats, calculate_all_stats),     *)
(* year_view.py (YearStats), config.py (MementoMoriConfig) and the calls   *)
(* and reads cli.py makes into them.  Calendar dates are proleptic         *)
(* Gregorian ordinals, as datetime.date.toordinal() numbers them.          *)
(***************************************************************************)
EXTENDS Integers, Sequences, FiniteSets, TLC

VARIABLES
    now,            \* datetime.now().date(): the wall-clock date
    life,           \* the LifeStats instance (its dataclass fields)
    free,           \* the FreeTimeStats instance built over life
    lifeRet,        \* the last LifeStats property evaluated and its value
    today,          \* YearStats.today
    ypc,            \* position inside YearStats.get_remaining_weekends()
    next_saturday,  \* local of get_remaining_weekends()
    weekends,       \* local of get_remaining_weekends(): the list built
    parents,        \* the ParentTimeStats instance
    parentsRet,     \* the last ParentTimeStats method called and its result
    config,         \* MementoMoriConfig.config: the loaded configuration
    cli,            \* position of cli.main, the mode its arguments select
                    \* and the keywords of the call made
    callRet,        \* outcome of the last calculate_all_stats call
    yearCall,       \* the YearStats method called on top of the weekend
                    \* loop, its arguments and its result
    worklife,       \* the WorkLifeStats instance built over life
    render,         \* one rendering pass over a calculate_all_stats()
                    \* result: its position and the values it has read
    fs,             \* the file system at config_path
    mmc             \* the MementoMoriConfig object: the position of
                    \* __init__, self.config and the exception raised

lifeVars    == <<now, life, free, lifeRet>>
yearVars    == <<today, ypc, next_saturday, weekends>>
parentVars  == <<parents, parentsRet>>
cliVars     == <<config, cli, callRet>>
callVars    == <<yearCall, worklife, render>>
fileVars    == <<fs, mmc>>
vars        == <<now, life, free, lifeRet, today, ypc, next_saturday, weekends,
                 parents, parentsRet, config, cli, callRet, yearCall, worklife,
                 render, fs, mmc>>

Max(a, b) == IF a >= b THEN a ELSE b

Min(a, b) == IF a <= b THEN a ELSE b

(***************************************************************************)
(* datetime.date: ordinals, weekdays, years                                *)
(***************************************************************************)
IsLeap(y) == y % 4 = 0 /\ (y % 100 # 0 \/ y % 400 = 0)

\* the days before a year with every year taken as 365 days
DaysBeforeYearNoLeap(y) == (y - 1) * 365

\* whole days in the years before year y
DaysBeforeYear(y) == (y - 1) * 365 + (y - 1) \div 4 - (y - 1) \div 100 + (y - 1) \div 400

DaysBeforeMonth(y, m) ==
    <<0, 31, 59, 90, 120, 151, 181, 212, 243, 273, 304, 334>>[m]
        + (IF m > 2 /\ IsLeap(y) THEN 1 ELSE 0)

\* date(y, m, d) as its ordinal (date.toordinal(): 0001-01-01 is day 1)
Date(y, m, d) == DaysBeforeYear(y) + DaysBeforeMonth(y, m) + d

\* date.weekday(): Monday is 0, Saturday is 5, Sunday is 6
Weekday(d) == (d + 6) % 7

\* date.year
YearOf(d) == CHOOSE y \in (d \div 366)..(d \div 365 + 1) : Date(y, 1, 1) <= d /\ d <= Date(y, 12, 31)

(***************************************************************************)
(* Python float: IEEE-754 binary64, round to nearest, ties to even.        *)
(* A natural number of any size is a sequence of limbs in base 2^15, least *)
(* significant first, with no leading zero limb (0 is the empty sequence). *)
(* A float is [s, m, e] standing for (-1)^s * m * 2^e with 2^52 <= m < 2^53*)
(* or m = 0.  Subnormals, infinities and NaN are outside the magnitudes    *)
(* the program computes with.                                              *)
(*                                                                         *)
(* Python evaluates the operands of an operation once, before the          *)
(* operation: The({F(v) : v \in {x}}) is F applied to the value of x.      *)
(***************************************************************************)
The(S) == CHOOSE v \in S : TRUE

LimbBits == 15

LimbBase == 2 ^ LimbBits

MantissaBits == 53

\* a without its leading zero limbs
BNorm(a) ==
    LET nz == {i \in 1..Len(a) : a[i] # 0}
    IN  IF nz = {} THEN <<>> ELSE SubSeq(a, 1, CHOOSE i \in nz : \A j \in nz : j <= i)

RECURSIVE BFromNat(_)
BFromNat(n) == IF n = 0 THEN <<>> ELSE <<n % LimbBase>> \o BFromNat(n \div LimbBase)

RECURSIVE BToNatFrom(_, _)
BToNatFrom(a, i) == IF i > Len(a) THEN 0 ELSE a[i] + LimbBase * BToNatFrom(a, i + 1)

\* the value of a, for a < 2^31
BToNat(a) == The({BToNatFrom(v, 1) : v \in {a}})

Limb(a, i) == IF i <= Len(a) THEN a[i] ELSE 0

RECURSIVE BAddFrom(_, _, _, _)
BAddFrom(a, b, i, carry) ==
    IF i > Len(a) /\ i > Len(b)
    THEN (IF carry = 0 THEN <<>> ELSE <<carry>>)
    ELSE <<(Limb(a, i) + Limb(b, i) + carry) % LimbBase>>
            \o BAddFrom(a, b, i + 1, (Limb(a, i) + Limb(b, i) + carry) \div LimbBase)

BAdd(a, b) == BAddFrom(a, b, 1, 0)

RECURSIVE BSubFrom(_, _, _, _)
BSubFrom(a, b, i, borrow) ==
    IF i > Len(a)
    THEN <<>>
    ELSE <<(Limb(a, i) - Limb(b, i) - borrow) % LimbBase>>
            \o BSubFrom(a, b, i + 1, IF Limb(a, i) - Limb(b, i) - borrow < 0 THEN 1 ELSE 0)

\* a - b, for a >= b
BSub(a, b) == The({BNorm(d) : d \in {BSubFrom(a, b, 1, 0)}})

RECURSIVE BCmpFrom(_, _, _)
BCmpFrom(a, b, i) ==
    IF i = 0 THEN 0
    ELSE IF a[i] < b[i] THEN -1
    ELSE IF a[i] > b[i] THEN 1
    ELSE BCmpFrom(a, b, i - 1)

\* -1, 0 or 1 as a < b, a = b or a > b
BCmp(a, b) ==
    IF Len(a) < Len(b) THEN -1
    ELSE IF Len(a) > Len(b) THEN 1
    ELSE BCmpFrom(a, b, Len(a))

RECURSIVE BMulSmallFrom(_, _, _, _)
BMulSmallFrom(a, k, i, carry) ==
    IF i > Len(a)
    THEN (IF carry = 0 THEN <<>> ELSE <<carry>>)
    ELSE <<(a[i] * k + carry) % LimbBase>>
            \o BMulSmallFrom(a, k, i + 1, (a[i] * k + carry) \div LimbBase)

\* a * k, for 0 <= k < 2^15
BMulSmall(a, k) == IF k = 0 THEN <<>> ELSE BMulSmallFrom(a, k, 1, 0)

\* a * 2^(15 n)
BShlLimbs(a, n) == IF a = <<>> THEN a ELSE [i \in 1..n |-> 0] \o a

RECURSIVE BMulFrom(_, _, _)
BMulFrom(a, b, i) ==
    IF i > Len(b) THEN <<>>
    ELSE The({BAdd(BShlLimbs(p, i - 1), r) :
                p \in {BMulSmall(a, b[i])}, r \in {BMulFrom(a, b, i + 1)}})

BMul(a, b) == BMulFrom(a, b, 1)

\* a * 2^n
BShl(a, n) == The({BShlLimbs(p, n \div LimbBits) : p \in {BMulSmall(a, 2 ^ (n % LimbBits))}})

RECURSIVE BDivSmallFrom(_, _, _, _)
BDivSmallFrom(a, k, i, carry) ==
    IF i = 0 THEN <<>>
    ELSE BDivSmallFrom(a, k, i - 1, (carry * LimbBase + a[i]) % k)
            \o <<(carry * LimbBase + a[i]) \div k>>

\* floor(a / k), for 0 < k < 2^15
BDivSmall(a, k) == The({BNorm(q) : q \in {BDivSmallFrom(a, k, Len(a), 0)}})

\* floor(a / 2^n)
BShr(a, n) ==
    IF n \div LimbBits >= Len(a) THEN <<>>
    ELSE BDivSmall(SubSeq(a, n \div LimbBits + 1, Len(a)), 2 ^ (n % LimbBits))

\* the number of binary digits of a limb
NatBitLen(n) == CHOOSE k \in 0..LimbBits : n < 2 ^ k /\ (k = 0 \/ n >= 2 ^ (k - 1))

\* the number of binary digits of a
BBitLen(a) == IF a = <<>> THEN 0 ELSE LimbBits * (Len(a) - 1) + NatBitLen(a[Len(a)])

\* bit i of a (bit 0 is the least significant)
BBit(a, i) == (Limb(a, i \div LimbBits + 1) \div (2 ^ (i % LimbBits))) % 2

\* the number of zero bits below the lowest set bit of a # 0
BTrailingZeros(a) ==
    LET l == CHOOSE i \in 1..Len(a) : a[i] # 0 /\ \A j \in 1..(i - 1) : a[j] = 0
        t == CHOOSE k \in 0..(LimbBits - 1) : a[l] % (2 ^ (k + 1)) = 2 ^ k
    IN  LimbBits * (l - 1) + t

RECURSIVE BModSmallFrom(_, _, _, _)
BModSmallFrom(a, k, i, carry) ==
    IF i = 0 THEN carry
    ELSE BModSmallFrom(a, k, i - 1, (carry * LimbBase + a[i]) % k)

\* a mod k, for 0 < k < 2^15
BModSmall(a, k) == BModSmallFrom(a, k, Len(a), 0)

FZero == [s |-> 0, m |-> <<>>, e |-> 0]

\* 2^n - 1
BOnes(n) ==
    [i \in 1..(n \div LimbBits) |-> LimbBase - 1]
        \o (IF n % LimbBits = 0 THEN <<>> ELSE <<2 ^ (n % LimbBits) - 1>>)

\* the mantissa m of 53 or 54 bits brought to 53
FPack(s, m, e) ==
    IF BBitLen(m) > MantissaBits
    THEN [s |-> s, m |-> BShr(m, 1), e |-> e + 1]
    ELSE [s |-> s, m |-> m, e |-> e]

\* what is added to a quotient q before its low `drop` bits are cut off: half
\* a unit of the kept part, less one when the kept part is even and nothing
\* beyond q is left (a tie goes to the even mantissa)
FRoundingAddend(q, sticky, drop) ==
    IF sticky \/ BBit(q, drop) = 1 THEN BShl(<<1>>, drop - 1) ELSE BOnes(drop - 1)

\* the float (-1)^s * floor(t / 2^drop) * 2^(e + drop)
FCut(s, t, drop, e) == The({FPack(s, m, e + drop) : m \in {BShr(t, drop)}})

\* the float nearest to (-1)^s * (q + f) * 2^e for a quotient q of at least
\* 55 bits and a fraction 0 <= f < 1 that is nonzero iff sticky
FRoundQuotient(s, q, sticky, e) ==
    LET drop == BBitLen(q) - MantissaBits
    IN  The({FCut(s, t, drop, e) : t \in {BAdd(q, FRoundingAddend(q, sticky, drop))}})

\* FRound on the numerator already shifted
FRoundShifted(s, num, k, e) ==
    The({FRoundQuotient(s, q, r # 0, e) : q \in {BDivSmall(num, k)}, r \in {BModSmall(num, k)}})

\* the float nearest to (-1)^s * (n / k) * 2^e, ties to the even mantissa,
\* for a natural n and 0 < k < 2^15
FRoundValues(s, n, k, e) ==
    IF n = <<>> THEN FZero
    ELSE LET sh == Max(0, MantissaBits + 2 + NatBitLen(k) - BBitLen(n))
         IN  The({FRoundShifted(s, num, k, e - sh) : num \in {BShl(n, sh)}})

FRound(s, n, k, e) == The({FRoundValues(s, v, d, e) : v \in {n}, d \in {k}})

Abs(n) == IF n < 0 THEN -n ELSE n

\* float(n) of an integer n
FInt(n) == FRound(IF n < 0 THEN 1 ELSE 0, BFromNat(Abs(n)), 1, 0)

\* the float a decimal literal n / 10^p denotes (p <= 4), as float("8.1") reads it
FDec(n, p) == FRound(IF n < 0 THEN 1 ELSE 0, BFromNat(Abs(n)), 10 ^ p, 0)

\* int / int (true division) is correctly rounded; 0 < |b| < 2^15
FIntDiv(a, b) == FRound(IF (a < 0) # (b < 0) THEN 1 ELSE 0, BFromNat(Abs(a)), Abs(b), 0)

FNegValue(x) == IF x.m = <<>> THEN x ELSE [x EXCEPT !.s = 1 - x.s]

FNeg(x) == The({FNegValue(a) : a \in {x}})

\* the sum of two magnitudes a * 2^e and b * 2^e with signs sa and sb
FAddAligned(sa, a, sb, b, e) ==
    IF sa = sb THEN FRound(sa, BAdd(a, b), 1, e)
    ELSE IF BCmp(a, b) >= 0 THEN FRound(sa, BSub(a, b), 1, e)
    ELSE FRound(sb, BSub(b, a), 1, e)

FAddValues(x, y) ==
    IF x.m = <<>> THEN y
    ELSE IF y.m = <<>> THEN x
    ELSE The({FAddAligned(x.s, a, y.s, b, Min(x.e, y.e)) :
                a \in {BShl(x.m, x.e - Min(x.e, y.e))},
                b \in {BShl(y.m, y.e - Min(x.e, y.e))}})

FAdd(x, y) == The({FAddValues(a, b) : a \in {x}, b \in {y}})

FSub(x, y) == The({FAddValues(a, FNegValue(b)) : a \in {x}, b \in {y}})

FMulValues(x, y) ==
    IF x.m = <<>> \/ y.m = <<>> THEN FZero
    ELSE FRound((x.s + y.s) % 2, BMul(x.m, y.m), 1, x.e + y.e)

FMul(x, y) == The({FMulValues(a, b) : a \in {x}, b \in {y}})

FDivValues(x, y) ==
    IF x.m = <<>> THEN FZero
    ELSE LET tz == BTrailingZeros(y.m)
         IN  FRound((x.s + y.s) % 2, x.m, BToNat(BShr(y.m, tz)), x.e - y.e - tz)

\* x / y, for y # 0 whose mantissa has at most 15 significant bits (every
\* divisor of the program: 24, 100, 52, 7, 365.25)
FDiv(x, y) == The({FDivValues(a, b) : a \in {x}, b \in {y}})

FSign(x) == IF x.m = <<>> THEN 0 ELSE IF x.s = 1 THEN -1 ELSE 1

\* -1, 0 or 1 as x < y, x = y or x > y
FCmp(x, y) == The({FSign(d) : d \in {FSub(x, y)}})

FTruncValue(x) ==
    IF x.m = <<>> THEN 0
    ELSE IF x.e >= 0 THEN (1 - 2 * x.s) * BToNat(BShl(x.m, x.e))
    ELSE (1 - 2 * x.s) * BToNat(BShr(x.m, -x.e))

\* int(x): the integer part, toward zero
FTrunc(x) == The({FTruncValue(a) : a \in {x}})

(***************************************************************************)
(* Bounds of the model                                                     *)
(***************************************************************************)
\* number of days the wall clock advances during a run
MaxDays == 15

\* reference dates taken at each end of a calendar year
EdgeDays == 9

(***************************************************************************)
(* LifeStats                                                               *)
(***************************************************************************)
WeeksPerYear == 52

DaysPerWeek == 7

DefaultLifespan == 80

DefaultRetirementAge == 67

DefaultVacationWeeks == 3

DefaultWorkHoursPerWeek == 40

\* the dataclass LifeStats with its defaulted fields
LifeStats(birthdate, expected_lifespan, retirement_age) ==
    [birthdate |-> birthdate,
     expected_lifespan |-> expected_lifespan,
     retirement_age |-> retirement_age,
     work_hours_per_week |-> DefaultWorkHoursPerWeek,
     vacation_weeks_per_year |-> DefaultVacationWeeks]

\* a quotient rounded toward zero, as C's / does
TruncDiv(a, b) == IF a >= 0 THEN a \div b ELSE -((-a) \div b)

\* Python's // on integers: the floor of the quotient (b > 0)
FloorDiv(a, b) == a \div b

\* LifeStats.weeks_lived, with datetime.now().date() = d
weeks_lived(self, d) == FloorDiv(d - self.birthdate, DaysPerWeek)

total_weeks(self) == self.expected_lifespan * WeeksPerYear

weeks_remaining_unclamped(self, d) == total_weeks(self) - weeks_lived(self, d)

weeks_remaining(self, d) == Max(0, total_weeks(self) - weeks_lived(self, d))

days_remaining(self, d) == weeks_remaining(self, d) * DaysPerWeek

\* the percentage cut off at 100
percentage_lived_clamped(self, d) ==
    LET x == FMul(FIntDiv(weeks_lived(self, d), total_weeks(self)), FInt(100))
    IN  IF FCmp(x, FInt(100)) > 0 THEN FInt(100) ELSE x

\* LifeStats.percentage_lived: (weeks_lived / total_weeks) * 100
percentage_lived(self, d) ==
    FMul(FIntDiv(weeks_lived(self, d), total_weeks(self)), FInt(100))

\* LifeStats.age_years: delta.days / 365.25
age_years(self, d) == FDiv(FInt(d - self.birthdate), FDec(36525, 2))

\* LifeStats.years_remaining: weeks_remaining / 52
years_remaining(self, d) == FIntDiv(weeks_remaining(self, d), WeeksPerYear)

(***************************************************************************)
(* FreeTimeStats                                                           *)
(***************************************************************************)
HoursPerDay == 24

DefaultSleepHours == FDec(90, 1)

DefaultWorkHours == FDec(81, 1)

DefaultChoresHours == FDec(20, 1)

FreeTimeStats(life_stats, sleep, work, chores) ==
    [life_stats |-> life_stats,
     sleep_hours_per_day |-> sleep,
     work_hours_per_day |-> work,
     chores_hours_per_day |-> chores]

total_obligated_hours_per_day(self) ==
    FAdd(FAdd(self.sleep_hours_per_day, self.work_hours_per_day), self.chores_hours_per_day)

\* the difference with no max(0, ...) around it
free_hours_per_day_unclamped(self) ==
    FSub(FInt(HoursPerDay), total_obligated_hours_per_day(self))

\* FreeTimeStats.free_hours_per_day: max(0, 24 - total); max keeps its first
\* argument, the integer 0, unless the second is greater
free_hours_per_day(self) ==
    LET x == FSub(FInt(HoursPerDay), total_obligated_hours_per_day(self))
    IN  IF FCmp(x, FInt(0)) > 0 THEN x ELSE FInt(0)

free_time_percentage(self) ==
    FMul(FDiv(free_hours_per_day(self), FInt(HoursPerDay)), FInt(100))

free_weeks_lived(self, d) ==
    FTrunc(FMul(FInt(weeks_lived(self.life_stats, d)),
                FDiv(free_time_percentage(self), FInt(100))))

free_weeks_remaining(self, d) ==
    FTrunc(FMul(FInt(weeks_remaining(self.life_stats, d)),
                FDiv(free_time_percentage(self), FInt(100))))

(***************************************************************************)
(* WorkLifeStats, WeekendStats                                             *)
(***************************************************************************)
DefaultStartedWorkingAge == 22

WorkLifeStats(life_stats, started_working_age) ==
    [life_stats |-> life_stats, started_working_age |-> started_working_age]

\* the difference left as it is when it is negative
years_until_retirement_unclamped(self, d) ==
    FSub(FInt(self.life_stats.retirement_age), age_years(self.life_stats, d))

\* WorkLifeStats.years_until_retirement: max(0, retirement_age - age_years)
years_until_retirement(self, d) ==
    LET x == FSub(FInt(self.life_stats.retirement_age), age_years(self.life_stats, d))
    IN  IF FCmp(x, FInt(0)) > 0 THEN x ELSE FInt(0)

\* WorkLifeStats.weeks_until_retirement: int(years_until_retirement * 52)
weeks_until_retirement(self, d) ==
    FTrunc(FMul(years_until_retirement(self, d), FInt(WeeksPerYear)))

\* WorkLifeStats.vacation_weeks_remaining
vacation_weeks_remaining(self, d) ==
    FTrunc(FMul(years_until_retirement(self, d),
                FInt(self.life_stats.vacation_weeks_per_year)))

WeekendStats(life_stats) == [life_stats |-> life_stats]

weekends_remaining(self, d) == weeks_remaining(self.life_stats, d)

weekend_days_remaining(self, d) == weekends_remaining(self, d) * 2

(***************************************************************************)
(* The wall clock and a caller evaluating the properties                   *)
(***************************************************************************)
ClockStart == Date(2023, 12, 28)

Birthdates == {Date(1990, 1, 1), Date(2023, 1, 2), Date(2024, 1, 5)}

Lifespans == {1, 30, DefaultLifespan}

NoRet == [op |-> "none", at |-> 0, value |-> 0]

NoCall == [method |-> "none"]

NoPass == [pc |-> "idle"]

LifeInit ==
    /\ now = ClockStart
    /\ life \in {LifeStats(b, L, DefaultRetirementAge) : b \in Birthdates, L \in Lifespans}
    /\ free = <<>>
    /\ lifeRet = NoRet

\* midnight passes
Tick ==
    /\ now < ClockStart + MaxDays
    /\ now' = now + 1
    /\ UNCHANGED <<life, free, lifeRet>>

GetWeeksLived ==
    /\ lifeRet' = [op |-> "weeks_lived", at |-> now, value |-> weeks_lived(life, now)]
    /\ UNCHANGED <<now, life, free>>

GetTotalWeeks ==
    /\ lifeRet' = [op |-> "total_weeks", at |-> now, value |-> total_weeks(life)]
    /\ UNCHANGED <<now, life, free>>

GetWeeksRemaining ==
    /\ lifeRet' = [op |-> "weeks_remaining", at |-> now, value |-> weeks_remaining(life, now)]
    /\ UNCHANGED <<now, life, free>>

GetPercentageLived ==
    /\ lifeRet' = [op |-> "percentage_lived", at |-> now, value |-> percentage_lived(life, now)]
    /\ UNCHANGED <<now, life, free>>

SleepChoices == {DefaultSleepHours, FDec(120, 1)}

WorkChoices == {DefaultWorkHours, FDec(120, 1)}

ChoresChoices == {FDec(0, 1), DefaultChoresHours}

\* FreeTimeStats(life_stats, sleep, work, chores) over a LifeStats, built
\* in the last week of the clock: someone in mid-life, someone not yet born
\* and someone past an expected lifespan of one year
FreeInit ==
    /\ now = ClockStart + MaxDays - DaysPerWeek
    /\ life \in {LifeStats(Date(1990, 1, 1), DefaultLifespan, DefaultRetirementAge),
                 LifeStats(Date(2024, 3, 1), DefaultLifespan, DefaultRetirementAge),
                 LifeStats(Date(2023, 1, 2), 1, DefaultRetirementAge)}
    /\ free \in {FreeTimeStats(life, sl, wk, ch) :
                   sl \in SleepChoices, wk \in WorkChoices, ch \in ChoresChoices}
    /\ lifeRet = NoRet

GetFreeHoursPerDay ==
    /\ lifeRet' = [op |-> "free_hours_per_day", at |-> now, value |-> free_hours_per_day(free)]
    /\ UNCHANGED <<now, life, free>>

GetFreeTimePercentage ==
    /\ lifeRet' = [op |-> "free_time_percentage", at |-> now, value |-> free_time_percentage(free)]
    /\ UNCHANGED <<now, life, free>>

GetFreeWeeksLived ==
    /\ lifeRet' = [op |-> "free_weeks_lived", at |-> now, value |-> free_weeks_lived(free, now)]
    /\ UNCHANGED <<now, life, free>>

GetFreeWeeksRemaining ==
    /\ lifeRet' = [op |-> "free_weeks_remaining", at |-> now, value |-> free_weeks_remaining(free, now)]
    /\ UNCHANGED <<now, life, free>>

\* working lives: mid-career; turning one year old with retirement at 1;
\* exactly 4.0 years old (1461 days) five days into the clock with
\* retirement at 4; not yet born
WorkingLives ==
    {LifeStats(Date(1990, 1, 1), DefaultLifespan, DefaultRetirementAge),
     LifeStats(Date(2023, 1, 2), DefaultLifespan, 1),
     LifeStats(ClockStart + 5 - 1461, DefaultLifespan, 4),
     LifeStats(Date(2024, 1, 5), DefaultLifespan, DefaultRetirementAge)}

VacationChoices == {DefaultVacationWeeks, 5}

\* WorkLifeStats(LifeStats(birthdate, retirement_age=..., vacation_weeks_per_year=...))
WorkInit ==
    /\ now = ClockStart
    /\ life \in {[l EXCEPT !.vacation_weeks_per_year = v] :
                   l \in WorkingLives, v \in VacationChoices}
    /\ free = <<>>
    /\ worklife = WorkLifeStats(life, DefaultStartedWorkingAge)
    /\ lifeRet = NoRet

GetYearsUntilRetirement ==
    /\ lifeRet' = [op |-> "years_until_retirement", at |-> now,
                   value |-> years_until_retirement(worklife, now)]
    /\ UNCHANGED <<now, life, free, worklife>>

GetWeeksUntilRetirement ==
    /\ lifeRet' = [op |-> "weeks_until_retirement", at |-> now,
                   value |-> weeks_until_retirement(worklife, now)]
    /\ UNCHANGED <<now, life, free, worklife>>

GetVacationWeeksRemaining ==
    /\ lifeRet' = [op |-> "vacation_weeks_remaining", at |-> now,
                   value |-> vacation_weeks_remaining(worklife, now)]
    /\ UNCHANGED <<now, life, free, worklife>>

(***************************************************************************)
(* YearStats                                                               *)
(***************************************************************************)
Saturday == 5

\* YearStats.year_end: date(self.today.year, 12, 31)
year_end(t) == Date(YearOf(t), 12, 31)

year_start(t) == Date(YearOf(t), 1, 1)

\* the offset with the guard on weekday() left out of the correction
days_until_saturday_skipping(current) ==
    LET n == (Saturday - Weekday(current)) % DaysPerWeek
    IN  IF n = 0 THEN DaysPerWeek ELSE n

\* get_remaining_weekends: "Find next Saturday"
days_until_saturday(current) ==
    LET n == (Saturday - Weekday(current)) % DaysPerWeek
    IN  IF n = 0 /\ Weekday(current) # Saturday THEN DaysPerWeek ELSE n

\* the loop body without its test of the Sunday
loop_body_keeping_orphan(sat, t, acc) == Append(acc, <<sat, sat + 1>>)

\* get_remaining_weekends: the body of the while loop, on the list built so far
loop_body(sat, t, acc) ==
    LET sunday == sat + 1
    IN  IF sunday <= year_end(t) THEN Append(acc, <<sat, sunday>>) ELSE acc

RefYears == {2018, 2022, 2024}

\* reference dates: the first and the last EdgeDays days of each year
RefDates ==
    UNION {(year_start(Date(y, 6, 1)))..(year_start(Date(y, 6, 1)) + EdgeDays - 1)
             \cup (year_end(Date(y, 6, 1)) - EdgeDays + 1)..(year_end(Date(y, 6, 1)))
           : y \in RefYears}

\* YearStats(today = t)
YearInit ==
    /\ today \in RefDates
    /\ ypc = "constructed"
    /\ next_saturday = 0
    /\ weekends = <<>>

\* get_remaining_weekends, up to the loop
FindNextSaturday ==
    /\ ypc = "constructed"
    /\ weekends' = <<>>
    /\ next_saturday' = today + days_until_saturday(today)
    /\ ypc' = "loop"
    /\ UNCHANGED today

\* one iteration of "while next_saturday <= self.year_end"
LoopIteration ==
    /\ ypc = "loop"
    /\ next_saturday <= year_end(today)
    /\ weekends' = loop_body(next_saturday, today, weekends)
    /\ next_saturday' = next_saturday + DaysPerWeek
    /\ UNCHANGED <<today, ypc>>

\* the loop condition fails: return weekends
LoopExit ==
    /\ ypc = "loop"
    /\ ~(next_saturday <= year_end(today))
    /\ ypc' = "returned"
    /\ UNCHANGED <<today, next_saturday, weekends>>

\* calculate_free_weekend_days, from the list its call of
\* get_remaining_weekends() returned
calculate_free_weekend_days(remaining_weekends, percentage, obligations_on_weekends) ==
    LET total_weekend_days == Len(remaining_weekends) * 2
    IN  IF obligations_on_weekends
        THEN FTrunc(FMul(FInt(total_weekend_days), FDiv(percentage, FInt(100))))
        ELSE total_weekend_days

\* free-time percentages passed in: whole percentages, the percentage of the
\* default hour allocations (20.41...) and one above 100
PercentChoices ==
    {FInt(0), FInt(29), FInt(58), FInt(100), FInt(150),
     FMul(FDiv(FSub(FInt(HoursPerDay),
                    FAdd(FAdd(DefaultSleepHours, DefaultWorkHours), DefaultChoresHours)),
               FInt(HoursPerDay)), FInt(100))}

\* calculate_free_weekend_days(p, flag) is entered
CallCalculateFreeWeekendDays(p, flag) ==
    /\ ypc = "constructed"
    /\ yearCall = NoCall
    /\ yearCall' = [method |-> "calculate_free_weekend_days", pc |-> "called",
                    free_time_percentage |-> p, obligations_on_weekends |-> flag]
    /\ UNCHANGED <<today, ypc, next_saturday, weekends>>

\* get_remaining_weekends() has returned to it: it returns its result
ReturnFreeWeekendDays ==
    /\ ypc = "returned"
    /\ yearCall # NoCall
    /\ yearCall.method = "calculate_free_weekend_days"
    /\ yearCall.pc = "called"
    /\ yearCall' = [method |-> "calculate_free_weekend_days", pc |-> "returned",
                    free_time_percentage |-> yearCall.free_time_percentage,
                    obligations_on_weekends |-> yearCall.obligations_on_weekends,
                    value |-> calculate_free_weekend_days(weekends,
                                  yearCall.free_time_percentage,
                                  yearCall.obligations_on_weekends)]
    /\ UNCHANGED <<today, ypc, next_saturday, weekends>>

\* date.month
MonthOf(d) ==
    CHOOSE m \in 1..12 :
        /\ Date(YearOf(d), m, 1) <= d
        /\ (m = 12 \/ d < Date(YearOf(d), m + 1, 1))

\* the list "months" of get_months_remaining_list
Months ==
    <<"January", "February", "March", "April", "May", "June", "July", "August",
      "September", "October", "November", "December">>

\* YearStats.months_remaining: 12 - self.today.month
months_remaining(t) == 12 - MonthOf(t)

\* the slice taken from the current month on
get_months_remaining_list_from_current(t) == SubSeq(Months, MonthOf(t), Len(Months))

\* YearStats.get_months_remaining_list: months[self.today.month:]
get_months_remaining_list(t) == SubSeq(Months, MonthOf(t) + 1, Len(Months))

\* reference dates in every month: its first day, its 15th and its last day
MonthDates ==
    UNION {{Date(y, m, 1), Date(y, m, 15),
            (IF m = 12 THEN Date(y + 1, 1, 1) ELSE Date(y, m + 1, 1)) - 1} :
           y \in RefYears, m \in 1..12}

\* YearStats(today = t)
MonthsInit ==
    /\ today \in MonthDates
    /\ ypc = "constructed"
    /\ next_saturday = 0
    /\ weekends = <<>>
    /\ yearCall = NoCall

GetMonthsRemaining ==
    /\ yearCall' = [method |-> "months_remaining", pc |-> "returned",
                    value |-> months_remaining(today)]
    /\ UNCHANGED <<today, ypc, next_saturday, weekends>>

GetMonthsRemainingList ==
    /\ yearCall' = [method |-> "get_months_remaining_list", pc |-> "returned",
                    value |-> get_months_remaining_list(today)]
    /\ UNCHANGED <<today, ypc, next_saturday, weekends>>

(***************************************************************************)
(* ParentTimeStats                                                         *)
(***************************************************************************)
DefaultVisitsPerYear == 10

DefaultDaysPerVisit == 2

DefaultParentLifeExpectancy == 80

\* Optional[int]: None, or a value
None == <<>>

Some(x) == <<x>>

\* Python truth of an Optional[int]: None and 0 are false
Truthy(o) == o # None /\ o[1] # 0

ParentTimeStats(father_age, mother_age, visits_per_year, days_per_visit, parent_life_expectancy) ==
    [father_age |-> father_age,
     mother_age |-> mother_age,
     visits_per_year |-> visits_per_year,
     days_per_visit |-> days_per_visit,
     parent_life_expectancy |-> parent_life_expectancy]

\* the body shared by days_left_with_father and days_left_with_mother
days_left(self, age) ==
    IF ~Truthy(age)
    THEN None
    ELSE LET years_left == Max(0, self.parent_life_expectancy - age[1])
         IN  Some(years_left * self.visits_per_year * self.days_per_visit)

days_left_with_father(self) == days_left(self, self.father_age)

days_left_with_mother(self) == days_left(self, self.mother_age)

\* "x or 0" on an Optional[int]
OrZero(o) == IF Truthy(o) THEN o[1] ELSE 0

total_days_left(self) ==
    OrZero(days_left_with_father(self)) + OrZero(days_left_with_mother(self))

ParentAges == {None} \cup {Some(a) : a \in {0, 1, 79, 80, 81}}

ParentsInit ==
    /\ parents \in {ParentTimeStats(f, m, v, d, DefaultParentLifeExpectancy) :
                      f \in ParentAges, m \in ParentAges,
                      v \in {0, DefaultVisitsPerYear}, d \in {1, DefaultDaysPerVisit}}
    /\ parentsRet = [op |-> "none", value |-> None]

CallDaysLeftWithFather ==
    /\ parentsRet' = [op |-> "days_left_with_father", value |-> days_left_with_father(parents)]
    /\ UNCHANGED parents

CallDaysLeftWithMother ==
    /\ parentsRet' = [op |-> "days_left_with_mother", value |-> days_left_with_mother(parents)]
    /\ UNCHANGED parents

CallTotalDaysLeft ==
    /\ parentsRet' = [op |-> "total_days_left", value |-> total_days_left(parents)]
    /\ UNCHANGED parents

(***************************************************************************)
(* MementoMoriConfig (the loaded dictionary) and its getters               *)
(***************************************************************************)
DefaultConfig ==
    [birthdate |-> <<1990, 1, 1>>,
     expected_lifespan |-> 80,
     retirement_age |-> 67,
     vacation_weeks_per_year |-> 3,
     time_assumptions |->
        [sleep_hours_per_day |-> FDec(90, 1),
         work_hours_per_day |-> FDec(81, 1),
         chores_hours_per_day |-> FDec(20, 1),
         work_hours_per_week |-> FDec(400, 1)],
     life_milestones |-> [started_working_age |-> 22, parent_life_expectancy |-> 80],
     parents |->
        [father_age |-> None, mother_age |-> None, visits_per_year |-> 10, days_per_visit |-> 2],
     notification_time |-> "08:00",
     notification_style |-> "motivational",
     show_grid |-> FALSE]

\* The file system at config_path.  parent is what stands where the parent
\* directory should ("dir", "missing", or "file": a regular file); mkdir_ok
\* and dir_writable say whether the process may create the missing
\* directory and a new file in the directory; file is what stands at
\* config_path: nothing, a directory, or a regular file whose text is a JSON
\* document (held as the value json.load gives) or not; readable and
\* writable are the permissions of that file.
FileKinds == {"missing", "dir", "malformed", "json"}

Json(v) == [kind |-> "json", json |-> v]

\* documents found in the file
FileConfigs ==
    {DefaultConfig,
     [DefaultConfig EXCEPT !.expected_lifespan = 70, !.birthdate = <<1985, 6, 15>>],
     [birthdate |-> <<2000, 2, 29>>, expected_lifespan |-> 90]}

FileSystems ==
    {f \in [parent : {"dir", "missing", "file"}, mkdir_ok : BOOLEAN, dir_writable : BOOLEAN,
            file : {[kind |-> k] : k \in FileKinds \ {"json"}} \cup {Json(c) : c \in FileConfigs},
            readable : BOOLEAN, writable : BOOLEAN] :
        f.parent # "dir" => f.file.kind = "missing"}

\* self.config_path.exists()
exists(f) == f.parent = "dir" /\ f.file.kind # "missing"

\* open(self.config_path) and json.load(f) both succeed
loads(f) == f.file.kind = "json" /\ f.readable

\* self.config_path.parent.mkdir(parents=True, exist_ok=True): the exception
\* it raises, or "none"
mkdir_raises(f) ==
    IF f.parent = "file" THEN "FileExistsError"
    ELSE IF f.parent = "missing" /\ ~f.mkdir_ok THEN "PermissionError"
    ELSE "none"

\* the file system after a successful mkdir
mkdir(f) == IF f.parent = "missing" THEN [f EXCEPT !.parent = "dir", !.dir_writable = TRUE] ELSE f

\* open(self.config_path, "w") succeeds
opens_for_writing(f) ==
    IF f.file.kind = "missing" THEN f.dir_writable
    ELSE f.file.kind # "dir" /\ f.writable

\* _save_config: json.dump into the file; an exception is caught and printed
\* as a warning
save_config(f, c) ==
    IF ~opens_for_writing(f) THEN f
    ELSE IF f.file.kind = "missing"
    THEN [f EXCEPT !.file = Json(c), !.readable = TRUE, !.writable = TRUE]
    ELSE [f EXCEPT !.file = Json(c)]

\* _create_default_config: the mkdir is outside any try
create_default_config(f) ==
    IF mkdir_raises(f) # "none"
    THEN [raised |-> mkdir_raises(f), config |-> <<>>, fs |-> f]
    ELSE [raised |-> "none", config |-> DefaultConfig, fs |-> save_config(mkdir(f), DefaultConfig)]

\* _load_config
load_config(f) ==
    IF ~exists(f) THEN create_default_config(f)
    ELSE IF loads(f) THEN [raised |-> "none", config |-> f.file.json, fs |-> f]
    ELSE create_default_config(f)

\* no MementoMoriConfig built yet
ConfigInit ==
    /\ fs \in FileSystems
    /\ mmc = [pc |-> "start", raised |-> "none", config |-> <<>>]

\* MementoMoriConfig(config_path): __init__ runs _load_config
Construct ==
    /\ mmc' = [pc |-> IF load_config(fs).raised = "none" THEN "constructed" ELSE "raised",
               raised |-> load_config(fs).raised,
               config |-> load_config(fs).config]
    /\ fs' = load_config(fs).fs

\* dict.get(key, default)
Get(d, key, default) == IF key \in DOMAIN d THEN d[key] ELSE default

\* config.get(section, {}).get(key, default)
GetIn(d, section, key, default) ==
    IF section \in DOMAIN d THEN Get(d[section], key, default) ELSE default

\* datetime.strptime(s, "%Y-%m-%d").date() of the text "yyyy-mm-dd", held
\* as its three numeric fields
get_birthdate(c) ==
    LET ymd == Get(c, "birthdate", <<1990, 1, 1>>)
    IN  Date(ymd[1], ymd[2], ymd[3])

get_time_assumption(c, key, default) == GetIn(c, "time_assumptions", key, default)

get_life_milestone(c, key, default) == GetIn(c, "life_milestones", key, default)

(***************************************************************************)
(* calculate_all_stats and the calls cli.py makes to it                    *)
(***************************************************************************)
\* the parameters in the signature of calculate_all_stats
Parameters ==
    {"birthdate", "expected_lifespan", "retirement_age", "father_age", "mother_age",
     "visits_per_year"}

\* the keywords cli.py passes in its calls
CliKeywords ==
    Parameters \cup
    {"work_hours_per_week", "vacation_weeks_per_year", "sleep_hours_per_day",
     "work_hours_per_day", "chores_hours_per_day", "started_working_age",
     "days_per_visit", "parent_life_expectancy"}

Raised(exc) == [raised |-> exc, value |-> <<>>]

Returned(v) == [raised |-> "none", value |-> v]

\* a call calculate_all_stats(**kwargs): Python binds the keywords to the
\* signature before the body runs
calculate_all_stats(kwargs) ==
    IF ~(DOMAIN kwargs \subseteq Parameters) \/ "birthdate" \notin DOMAIN kwargs
    THEN Raised("TypeError")
    ELSE LET life_stats ==
                 LifeStats(kwargs.birthdate,
                           Get(kwargs, "expected_lifespan", DefaultLifespan),
                           Get(kwargs, "retirement_age", DefaultRetirementAge))
         IN  Returned(
                 [life |-> life_stats,
                  free_time |-> FreeTimeStats(life_stats, DefaultSleepHours,
                                              DefaultWorkHours, DefaultChoresHours),
                  work |-> WorkLifeStats(life_stats, DefaultStartedWorkingAge),
                  parents |-> ParentTimeStats(Get(kwargs, "father_age", None),
                                              Get(kwargs, "mother_age", None),
                                              Get(kwargs, "visits_per_year", DefaultVisitsPerYear),
                                              DefaultDaysPerVisit,
                                              DefaultParentLifeExpectancy),
                  weekends |-> WeekendStats(life_stats)])

\* the keyword arguments of the call in display_summary, display_life_grid
\* and the --year branch of main
CliKwargs(c) ==
    [birthdate |-> get_birthdate(c),
     expected_lifespan |-> Get(c, "expected_lifespan", 80),
     retirement_age |-> Get(c, "retirement_age", 67),
     work_hours_per_week |-> Get(c, "work_hours_per_week", FDec(400, 1)),
     vacation_weeks_per_year |-> Get(c, "vacation_weeks_per_year", 3),
     sleep_hours_per_day |-> get_time_assumption(c, "sleep_hours_per_day", FDec(90, 1)),
     work_hours_per_day |-> get_time_assumption(c, "work_hours_per_day", FDec(81, 1)),
     chores_hours_per_day |-> get_time_assumption(c, "chores_hours_per_day", FDec(20, 1)),
     started_working_age |-> get_life_milestone(c, "started_working_age", 22),
     father_age |-> GetIn(c, "parents", "father_age", None),
     mother_age |-> GetIn(c, "parents", "mother_age", None),
     visits_per_year |-> GetIn(c, "parents", "visits_per_year", 10),
     days_per_visit |-> GetIn(c, "parents", "days_per_visit", 2),
     parent_life_expectancy |-> get_life_milestone(c, "parent_life_expectancy", 80)]

Modes == {"config", "year", "grid", "notify", "summary"}

Configs ==
    {DefaultConfig,
     [DefaultConfig EXCEPT !.expected_lifespan = 70, !.birthdate = <<1985, 6, 15>>],
     [DefaultConfig EXCEPT !.parents.father_age = Some(75)],
     [DefaultConfig EXCEPT !.parents.father_age = Some(0), !.parents.mother_age = Some(81)],
     [DefaultConfig EXCEPT !.parents.visits_per_year = 4, !.retirement_age = 60],
     [birthdate |-> <<2000, 2, 29>>, expected_lifespan |-> 90]}

CliInit ==
    /\ config \in Configs
    /\ cli = [pc |-> "start", mode |-> "none", keywords |-> {}]
    /\ callRet = Returned(<<>>)

\* main(): parse the arguments, then --config opens the editor and returns;
\* every other mode calls calculate_all_stats with CliKwargs and renders the
\* result. An exception of the call leaves main.
Main(mode) ==
    /\ cli.pc = "start"
    /\ IF mode = "config"
       THEN /\ cli' = [pc |-> "exited", mode |-> mode, keywords |-> {}]
            /\ UNCHANGED callRet
       ELSE /\ callRet' = calculate_all_stats(CliKwargs(config))
            /\ cli' = [pc |-> IF callRet'.raised = "none" THEN "exited" ELSE "raised",
                       mode |-> mode, keywords |-> DOMAIN CliKwargs(config)]
    /\ UNCHANGED config

\* a caller of the package's API passes the keywords K of its choice
ApiCall(K) ==
    /\ cli.pc = "start"
    /\ callRet' = calculate_all_stats([k \in K |-> CliKwargs(config)[k]])
    /\ cli' = [pc |-> "api", mode |-> "none", keywords |-> K]
    /\ UNCHANGED config

(***************************************************************************)
(* One rendering pass over the result of calculate_all_stats, as            *)
(* display_summary makes it: the properties are read one after the other   *)
(* and each reads the clock when it is evaluated                           *)
(***************************************************************************)
\* stats = calculate_all_stats(birthdate=b, expected_lifespan=L) has returned
RenderInit ==
    /\ now = ClockStart
    /\ life = <<>>
    /\ free = <<>>
    /\ lifeRet = NoRet
    /\ render \in {[pc |-> "built",
                     stats |-> calculate_all_stats(
                                   [birthdate |-> b, expected_lifespan |-> L]).value,
                     weeks_lived |-> None,
                     weeks_remaining |-> None,
                     weekends_remaining |-> None] :
                    b \in Birthdates, L \in Lifespans}

\* life.weeks_lived is formatted
ReadWeeksLived ==
    /\ render.pc = "built"
    /\ render' = [render EXCEPT !.pc = "read_weeks_lived",
                                !.weeks_lived = Some(weeks_lived(render.stats.life, now))]
    /\ UNCHANGED <<now, life, free, lifeRet>>

\* life.weeks_remaining is formatted
ReadWeeksRemaining ==
    /\ render.pc = "read_weeks_lived"
    /\ render' = [render EXCEPT !.pc = "read_weeks_remaining",
                                !.weeks_remaining =
                                    Some(weeks_remaining(render.stats.life, now))]
    /\ UNCHANGED <<now, life, free, lifeRet>>

\* weekends.weekends_remaining is formatted
ReadWeekendsRemaining ==
    /\ render.pc = "read_weeks_remaining"
    /\ render' = [render EXCEPT !.pc = "done",
                                !.weekends_remaining =
                                    Some(weekends_remaining(render.stats.weekends, now))]
    /\ UNCHANGED <<now, life, free, lifeRet>>

(***************************************************************************)
(* Idle values of the parts a specification does not exercise              *)
(***************************************************************************)
LifeIdle == now = 0 /\ life = <<>> /\ free = <<>> /\ lifeRet = NoRet

YearIdle == today = 0 /\ ypc = "idle" /\ next_saturday = 0 /\ weekends = <<>>

ParentsIdle == parents = <<>> /\ parentsRet = <<>>

CliIdle == config = <<>> /\ cli = [pc |-> "idle", mode |-> "none", keywords |-> {}] /\ callRet = Returned(<<>>)

CallIdle == yearCall = NoCall /\ worklife = <<>> /\ render = NoPass

FileIdle == fs = <<>> /\ mmc = <<>>

(***************************************************************************)
(* Specifications                                                          *)
(***************************************************************************)
\* LifeStats under an advancing wall clock
Init ==
    /\ LifeInit
    /\ YearIdle
    /\ ParentsIdle
    /\ CliIdle
    /\ CallIdle
    /\ FileIdle

Next ==
    \/ Tick /\ UNCHANGED <<yearVars, parentVars, cliVars, callVars, fileVars>>
    \/ GetWeeksLived /\ UNCHANGED <<yearVars, parentVars, cliVars, callVars, fileVars>>
    \/ GetTotalWeeks /\ UNCHANGED <<yearVars, parentVars, cliVars, callVars, fileVars>>
    \/ GetWeeksRemaining /\ UNCHANGED <<yearVars, parentVars, cliVars, callVars, fileVars>>
    \/ GetPercentageLived /\ UNCHANGED <<yearVars, parentVars, cliVars, callVars, fileVars>>

Spec == Init /\ [][Next]_vars

\* FreeTimeStats under an advancing wall clock
InitFree ==
    /\ FreeInit
    /\ YearIdle
    /\ ParentsIdle
    /\ CliIdle
    /\ CallIdle
    /\ FileIdle

NextFree ==
    \/ Tick /\ UNCHANGED <<yearVars, parentVars, cliVars, callVars, fileVars>>
    \/ GetFreeHoursPerDay /\ UNCHANGED <<yearVars, parentVars, cliVars, callVars, fileVars>>
    \/ GetFreeTimePercentage /\ UNCHANGED <<yearVars, parentVars, cliVars, callVars, fileVars>>
    \/ GetFreeWeeksLived /\ UNCHANGED <<yearVars, parentVars, cliVars, callVars, fileVars>>
    \/ GetFreeWeeksRemaining /\ UNCHANGED <<yearVars, parentVars, cliVars, callVars, fileVars>>

SpecFree == InitFree /\ [][NextFree]_vars

\* WorkLifeStats under an advancing wall clock
InitWork ==
    /\ WorkInit
    /\ yearCall = NoCall
    /\ render = NoPass
    /\ YearIdle
    /\ ParentsIdle
    /\ CliIdle
    /\ FileIdle

NextWork ==
    \/ Tick /\ UNCHANGED <<yearVars, parentVars, cliVars, callVars, fileVars>>
    \/ GetYearsUntilRetirement /\ UNCHANGED <<yearVars, parentVars, cliVars, yearCall, render, fileVars>>
    \/ GetWeeksUntilRetirement /\ UNCHANGED <<yearVars, parentVars, cliVars, yearCall, render, fileVars>>
    \/ GetVacationWeeksRemaining /\ UNCHANGED <<yearVars, parentVars, cliVars, yearCall, render, fileVars>>

SpecWork == InitWork /\ [][NextWork]_vars

\* a rendering pass under an advancing wall clock
InitRender ==
    /\ RenderInit
    /\ yearCall = NoCall
    /\ worklife = <<>>
    /\ YearIdle
    /\ ParentsIdle
    /\ CliIdle
    /\ FileIdle

NextRender ==
    \/ Tick /\ UNCHANGED <<yearVars, parentVars, cliVars, callVars, fileVars>>
    \/ ReadWeeksLived /\ UNCHANGED <<yearVars, parentVars, cliVars, yearCall, worklife, fileVars>>
    \/ ReadWeeksRemaining /\ UNCHANGED <<yearVars, parentVars, cliVars, yearCall, worklife, fileVars>>
    \/ ReadWeekendsRemaining /\ UNCHANGED <<yearVars, parentVars, cliVars, yearCall, worklife, fileVars>>

SpecRender == InitRender /\ [][NextRender]_vars

\* MementoMoriConfig built over a file system, once or again
InitConfig ==
    /\ ConfigInit
    /\ LifeIdle
    /\ YearIdle
    /\ ParentsIdle
    /\ CliIdle
    /\ CallIdle

NextConfig ==
    \/ Construct /\ UNCHANGED <<lifeVars, yearVars, parentVars, cliVars, callVars>>

SpecConfig == InitConfig /\ [][NextConfig]_vars

\* YearStats.get_remaining_weekends(), run to its return
InitYear ==
    /\ YearInit
    /\ LifeIdle
    /\ ParentsIdle
    /\ CliIdle
    /\ CallIdle
    /\ FileIdle

NextYear ==
    \/ FindNextSaturday /\ UNCHANGED <<lifeVars, parentVars, cliVars, callVars, fileVars>>
    \/ LoopIteration /\ UNCHANGED <<lifeVars, parentVars, cliVars, callVars, fileVars>>
    \/ LoopExit /\ UNCHANGED <<lifeVars, parentVars, cliVars, callVars, fileVars>>

\* the interpreter keeps executing the method until it returns
SpecYear == InitYear /\ [][NextYear]_vars /\ WF_vars(NextYear)

\* YearStats.calculate_free_weekend_days(p, flag), and get_remaining_weekends()
\* called by it or directly
InitWeekendDays ==
    /\ YearInit
    /\ LifeIdle
    /\ ParentsIdle
    /\ CliIdle
    /\ CallIdle
    /\ FileIdle

NextWeekendDays ==
    \/ \E p \in PercentChoices, flag \in BOOLEAN :
          CallCalculateFreeWeekendDays(p, flag)
             /\ UNCHANGED <<lifeVars, parentVars, cliVars, worklife, render, fileVars>>
    \/ FindNextSaturday /\ UNCHANGED <<lifeVars, parentVars, cliVars, callVars, fileVars>>
    \/ LoopIteration /\ UNCHANGED <<lifeVars, parentVars, cliVars, callVars, fileVars>>
    \/ LoopExit /\ UNCHANGED <<lifeVars, parentVars, cliVars, callVars, fileVars>>
    \/ ReturnFreeWeekendDays /\ UNCHANGED <<lifeVars, parentVars, cliVars, worklife, render, fileVars>>

SpecWeekendDays == InitWeekendDays /\ [][NextWeekendDays]_vars

\* YearStats.months_remaining and get_months_remaining_list()
InitMonths ==
    /\ MonthsInit
    /\ worklife = <<>>
    /\ render = NoPass
    /\ LifeIdle
    /\ ParentsIdle
    /\ CliIdle
    /\ FileIdle

NextMonths ==
    \/ GetMonthsRemaining /\ UNCHANGED <<lifeVars, parentVars, cliVars, worklife, render, fileVars>>
    \/ GetMonthsRemainingList /\ UNCHANGED <<lifeVars, parentVars, cliVars, worklife, render, fileVars>>

SpecMonths == InitMonths /\ [][NextMonths]_vars

\* ParentTimeStats and its three methods
InitParents ==
    /\ ParentsInit
    /\ LifeIdle
    /\ YearIdle
    /\ CliIdle
    /\ CallIdle
    /\ FileIdle

NextParents ==
    \/ CallDaysLeftWithFather /\ UNCHANGED <<lifeVars, yearVars, cliVars, callVars, fileVars>>
    \/ CallDaysLeftWithMother /\ UNCHANGED <<lifeVars, yearVars, cliVars, callVars, fileVars>>
    \/ CallTotalDaysLeft /\ UNCHANGED <<lifeVars, yearVars, cliVars, callVars, fileVars>>

SpecParents == InitParents /\ [][NextParents]_vars

\* cli.main, and direct calls of calculate_all_stats
InitCli ==
    /\ CliInit
    /\ LifeIdle
    /\ YearIdle
    /\ ParentsIdle
    /\ CallIdle
    /\ FileIdle

NextCli ==
    \/ \E mode \in Modes : Main(mode) /\ UNCHANGED <<lifeVars, yearVars, parentVars, callVars, fileVars>>
    \/ \E K \in SUBSET CliKeywords :
          /\ Cardinality(K \ Parameters) <= 1
          /\ ApiCall(K) /\ UNCHANGED <<lifeVars, yearVars, parentVars, callVars, fileVars>>

SpecCli == InitCli /\ [][NextCli]_vars

(***************************************************************************)
(* Properties                                                              *)
(***************************************************************************)

\* C1: whenever weeks_remaining is evaluated, its value is
\* max(0, expected_lifespan * 52 - weeks_lived) for the weeks_lived of that
\* same date; it is never negative, and it is 0 once weeks_lived has reached
\* expected_lifespan * 52.
C1_WeeksRemainingClamped ==
    lifeRet.op = "weeks_remaining" =>
        LET T == life.expected_lifespan * 52
            w == weeks_lived(life, lifeRet.at)
        IN  /\ lifeRet.value = (IF T - w > 0 THEN T - w ELSE 0)
            /\ lifeRet.value >= 0
            /\ (w >= T => lifeRet.value = 0)

\* weeks_remaining was evaluated for someone past the expected lifespan
C1_Witness ==
    /\ lifeRet.op = "weeks_remaining"
    /\ weeks_lived(life, lifeRet.at) > life.expected_lifespan * 52
    /\ lifeRet.value = 0

\* C3: a value of weeks_lived evaluated on some date is never above the
\* value on any later date of the advancing clock, and seven days after the
\* evaluation weeks_lived is exactly one more, also for a birthdate that
\* lies after the date of the evaluation.
C3_WeeksLivedAdvances ==
    lifeRet.op = "weeks_lived" =>
        /\ weeks_lived(life, now) >= lifeRet.value
        /\ (now = lifeRet.at + 7 => weeks_lived(life, now) = lifeRet.value + 1)

\* weeks_lived was evaluated before the birthdate, and seven days have passed
C3_Witness ==
    /\ lifeRet.op = "weeks_lived"
    /\ life.birthdate > lifeRet.at
    /\ (life.birthdate - lifeRet.at) % 7 # 0
    /\ now = lifeRet.at + 7
    /\ weeks_lived(life, now) = lifeRet.value + 1

\* the earliest Saturday on or after date t
EarliestSaturday(t) == CHOOSE s \in t..(t + 6) : Weekday(s) = 5

\* the Saturdays whose weekend lies between date t and the end of t's year
WholeWeekends(t) == {s \in t..Date(YearOf(t), 12, 31) : Weekday(s) = 5 /\ s + 1 <= Date(YearOf(t), 12, 31)}

\* C5: every pair (s, u) collected by get_remaining_weekends() has s a
\* Saturday, u = s + 1, s on or after the reference date and u on or before
\* December 31 of its year; consecutive pairs are exactly 7 days apart (so
\* strictly ascending); the Saturday December 31 of a year is never in it.
C5_WeekendPairsSound ==
    ypc \in {"loop", "returned"} =>
        /\ \A i \in 1..Len(weekends) :
              /\ Weekday(weekends[i][1]) = 5
              /\ weekends[i][2] = weekends[i][1] + 1
              /\ weekends[i][1] >= today
              /\ weekends[i][2] <= Date(YearOf(today), 12, 31)
              /\ weekends[i][1] # Date(YearOf(today), 12, 31)
        /\ \A i \in 1..(Len(weekends) - 1) : weekends[i + 1][1] = weekends[i][1] + 7

\* the method returned in a year whose December 31 is a Saturday
C5_Witness ==
    /\ ypc = "returned"
    /\ Weekday(Date(YearOf(today), 12, 31)) = 5
    /\ Len(weekends) >= 1
    /\ weekends[Len(weekends)][1] = Date(YearOf(today), 12, 24)

\* what C6 requires of a state
C6_State ==
    /\ (ypc = "loop" /\ weekends = <<>> /\ next_saturday < today + 7)
          => next_saturday = EarliestSaturday(today)
    /\ ypc = "returned" =>
          /\ {weekends[i][1] : i \in 1..Len(weekends)} = WholeWeekends(today)
          /\ (Weekday(today) = 5 /\ today + 1 <= Date(YearOf(today), 12, 31))
                => weekends[1] = <<today, today + 1>>
          /\ today = Date(2018, 1, 1) => weekends[1][1] = Date(2018, 1, 6)

\* C6: get_remaining_weekends() returns; its first candidate is the earliest
\* Saturday on or after the reference date (the reference date itself when
\* that is a Saturday, January 6 for Monday 2018-01-01); and the result holds
\* every Saturday from the reference date on whose Sunday is still in the year.
C6_WeekendsComplete == <>(ypc = "returned") /\ []C6_State

\* the method returned for a reference date that is a Saturday, with that
\* Saturday first in the result
C6_Witness ==
    /\ ypc = "returned"
    /\ Weekday(today) = 5
    /\ Len(weekends) >= 2
    /\ weekends[1][1] = today

\* C4 as stated: the per-parent method returns the absent value exactly when
\* the age was not provided, and for every provided age a (0 included) the
\* number max(0, parent_life_expectancy - a) * visits_per_year * days_per_visit.
C4_AbsentIffNotProvided ==
    /\ parentsRet.op = "days_left_with_father" =>
          /\ (parentsRet.value = <<>>) <=> (parents.father_age = <<>>)
          /\ parents.father_age # <<>> =>
                parentsRet.value =
                    <<(IF parents.parent_life_expectancy - parents.father_age[1] > 0
                       THEN parents.parent_life_expectancy - parents.father_age[1] ELSE 0)
                      * parents.visits_per_year * parents.days_per_visit>>
    /\ parentsRet.op = "days_left_with_mother" =>
          /\ (parentsRet.value = <<>>) <=> (parents.mother_age = <<>>)
          /\ parents.mother_age # <<>> =>
                parentsRet.value =
                    <<(IF parents.parent_life_expectancy - parents.mother_age[1] > 0
                       THEN parents.parent_life_expectancy - parents.mother_age[1] ELSE 0)
                      * parents.visits_per_year * parents.days_per_visit>>

\* float x lies within 2^-40 (relatively) of the rational n / k, k > 0
FNear(x, n, k) ==
    IF n = 0 THEN x.m = <<>>
    ELSE /\ x.m # <<>>
         /\ x.s = (IF n < 0 THEN 1 ELSE 0)
         /\ x.e <= 0
         /\ LET a == BMulSmall(x.m, k)
                b == BShl(BFromNat(IF n < 0 THEN -n ELSE n), -x.e)
                diff == IF BCmp(a, b) >= 0 THEN BSub(a, b) ELSE BSub(b, a)
            IN  BCmp(BShl(diff, 40), b) <= 0

\* C2: whenever percentage_lived is evaluated, its value is
\* weeks_lived / (expected_lifespan * 52) * 100 and is not cut off at 100: it
\* is above 100 exactly when weeks_lived > expected_lifespan * 52, and
\* weeks_remaining is 0 on that date in that case.
C2_PercentageUnclamped ==
    lifeRet.op = "percentage_lived" =>
        LET T == life.expected_lifespan * 52
            w == (lifeRet.at - life.birthdate) \div 7
        IN  /\ FNear(lifeRet.value, 100 * w, T)
            /\ (FCmp(lifeRet.value, FInt(100)) > 0) <=> (w > T)
            /\ w > T => weeks_remaining(life, lifeRet.at) = 0

\* percentage_lived was evaluated for someone past the expected lifespan
C2_Witness ==
    /\ lifeRet.op = "percentage_lived"
    /\ weeks_lived(life, lifeRet.at) > life.expected_lifespan * 52
    /\ FCmp(lifeRet.value, FInt(100)) > 0

\* C8 on the obligations of FreeTimeStats f: their sum, the free hours and
\* the percentage, written out operation by operation
C8_Total(f) == FAdd(FAdd(f.sleep_hours_per_day, f.work_hours_per_day), f.chores_hours_per_day)

C8_Hours(f) ==
    IF FCmp(C8_Total(f), FInt(24)) >= 0 THEN FInt(0) ELSE FSub(FInt(24), C8_Total(f))

C8_Percentage(f) == FMul(FDiv(C8_Hours(f), FInt(24)), FInt(100))

\* integer n is float x with its fraction dropped
C8_Truncated(n, x) ==
    IF FCmp(x, FInt(0)) >= 0
    THEN FCmp(FInt(n), x) <= 0 /\ FCmp(x, FInt(n + 1)) < 0
    ELSE FCmp(FInt(n - 1), x) < 0 /\ FCmp(x, FInt(n)) <= 0

C8_Example(f) ==
    /\ f.sleep_hours_per_day = FDec(90, 1)
    /\ f.work_hours_per_day = FDec(81, 1)
    /\ f.chores_hours_per_day = FDec(20, 1)

\* C8: free_hours_per_day is max(0, 24 - (sleep + work + chores)): 0 when the
\* obligations sum to 24 or more, never negative; free_time_percentage is
\* free_hours_per_day / 24 * 100; for 9, 8.1 and 2 hours these are 4.9 and
\* 20.4 (to one decimal); free_weeks_lived and free_weeks_remaining are
\* weeks_lived and weeks_remaining times that percentage / 100, with the
\* fraction dropped.
C8_FreeTime ==
    /\ lifeRet.op = "free_hours_per_day" =>
          /\ lifeRet.value = C8_Hours(free)
          /\ FCmp(lifeRet.value, FInt(0)) >= 0
          /\ C8_Example(free) => FNear(lifeRet.value, 49, 10)
    /\ lifeRet.op = "free_time_percentage" =>
          /\ lifeRet.value = C8_Percentage(free)
          /\ C8_Example(free) =>
                /\ FCmp(lifeRet.value, FDec(2035, 2)) >= 0
                /\ FCmp(lifeRet.value, FDec(2045, 2)) < 0
    /\ lifeRet.op = "free_weeks_lived" =>
          C8_Truncated(lifeRet.value,
                       FMul(FInt((lifeRet.at - life.birthdate) \div 7),
                            FDiv(C8_Percentage(free), FInt(100))))
    /\ lifeRet.op = "free_weeks_remaining" =>
          C8_Truncated(lifeRet.value,
                       FMul(FInt(weeks_remaining(life, lifeRet.at)),
                            FDiv(C8_Percentage(free), FInt(100))))

\* free_hours_per_day was evaluated with more than 24 hours of obligations
C8_Witness ==
    /\ lifeRet.op = "free_hours_per_day"
    /\ FCmp(C8_Total(free), FInt(24)) > 0
    /\ lifeRet.value = FInt(0)

\* the case of C10: born 1990-01-01, evaluated on 2024-01-01, lifespan 80
C10_Case ==
    /\ life.birthdate = Date(1990, 1, 1)
    /\ life.expected_lifespan = 80
    /\ lifeRet.at = Date(2024, 1, 1)

C10_Values ==
    /\ lifeRet.op = "weeks_lived" => lifeRet.value = 1774
    /\ lifeRet.op = "total_weeks" => lifeRet.value = 4160
    /\ lifeRet.op = "weeks_remaining" => lifeRet.value = 2386
    /\ lifeRet.op = "percentage_lived" =>
          /\ FCmp(lifeRet.value, FDec(4255, 2)) >= 0
          /\ FCmp(lifeRet.value, FDec(4265, 2)) < 0

\* C10 as stated: in that case the two dates are 12419 days apart,
\* weeks_lived = 1774, total_weeks = 4160, weeks_remaining = 2386 and
\* percentage_lived is 42.6 to one decimal.
C10_AsStated ==
    (C10_Case /\ lifeRet.op # "none") =>
        /\ lifeRet.at - life.birthdate = 12419
        /\ C10_Values

\* C10 amended: in that case the two dates are 12418 days apart,
\* weeks_lived = 1774, total_weeks = 4160, weeks_remaining = 2386 and
\* percentage_lived is 42.6 to one decimal.
C10_Example ==
    (C10_Case /\ lifeRet.op # "none") =>
        /\ lifeRet.at - life.birthdate = 12418
        /\ C10_Values

\* weeks_remaining was evaluated in the case of C10
C10_Witness ==
    /\ C10_Case
    /\ lifeRet.op = "weeks_remaining"
    /\ lifeRet.value = 2386

\* C7 as stated: every call cli.main makes to calculate_all_stats, with the
\* birthdate and every parameter of the configuration, returns without
\* raising a mapping with exactly the keys life, free_time, work, parents,
\* weekends, whose objects carry the values supplied.
C7_CliCallReturns ==
    (cli.pc \in {"exited", "raised"} /\ cli.mode # "config") =>
        /\ callRet.raised = "none"
        /\ DOMAIN callRet.value = {"life", "free_time", "work", "parents", "weekends"}
        /\ callRet.value.life.expected_lifespan = Get(config, "expected_lifespan", 80)
        /\ callRet.value.parents.days_per_visit = GetIn(config, "parents", "days_per_visit", 2)
        /\ callRet.value.free_time.sleep_hours_per_day
              = GetIn(config, "time_assumptions", "sleep_hours_per_day", FDec(90, 1))
        /\ callRet.value.work.started_working_age
              = GetIn(config, "life_milestones", "started_working_age", 22)

\* C11 as stated: calculate_free_weekend_days(p, flag), with W twice the
\* number of pairs get_remaining_weekends() returned, returns W when flag is
\* false and W * p / 100 with its fraction dropped when flag is true; for
\* 0 <= p <= 100 the result is between 0 and W.
C11_FreeWeekendDays ==
    (yearCall # NoCall /\ yearCall.pc = "returned") =>
        LET W == 2 * Len(weekends)
            p == yearCall.free_time_percentage
        IN  /\ ~yearCall.obligations_on_weekends => yearCall.value = W
            /\ yearCall.obligations_on_weekends =>
                  C8_Truncated(yearCall.value, FDiv(FMul(FInt(W), p), FInt(100)))
            /\ (FCmp(p, FInt(0)) >= 0 /\ FCmp(p, FInt(100)) <= 0) =>
                  (0 <= yearCall.value /\ yearCall.value <= W)

\* the full names of the months, in calendar order
C12_Names ==
    <<"January", "February", "March", "April", "May", "June", "July", "August",
      "September", "October", "November", "December">>

\* C12: for every reference date get_months_remaining_list() returns, in
\* calendar order, exactly the full names of the months strictly after the
\* reference date's month (none in December), and its length is
\* months_remaining = 12 - the month number, whatever the day of the month.
C12_MonthsAfterCurrent ==
    LET m == Cardinality({k \in 1..12 : Date(YearOf(today), k, 1) <= today})
    IN  /\ yearCall.method = "months_remaining" => yearCall.value = 12 - m
        /\ yearCall.method = "get_months_remaining_list" =>
              /\ Len(yearCall.value) = 12 - m
              /\ Len(yearCall.value) = months_remaining(today)
              /\ \A i \in 1..Len(yearCall.value) : yearCall.value[i] = C12_Names[m + i]
              /\ m = 12 => yearCall.value = <<>>

\* the list was asked for on the last day of October
C12_Witness ==
    /\ today = Date(2024, 10, 31)
    /\ yearCall.method = "get_months_remaining_list"
    /\ yearCall.value = <<"November", "December">>

\* retirement_age - age_years on the day a property was read
C13_YearsLeft == FSub(FInt(life.retirement_age), age_years(life, lifeRet.at))

\* C13: years_until_retirement is max(0, retirement_age - age_years) and never
\* negative; weeks_until_retirement and vacation_weeks_remaining are never
\* negative and are 0 whenever the age is at or above retirement_age;
\* vacation_weeks_remaining is years_until_retirement times
\* vacation_weeks_per_year with its fraction dropped.
C13_Retirement ==
    LET retired == FCmp(age_years(life, lifeRet.at), FInt(life.retirement_age)) >= 0
        years   == IF FCmp(C13_YearsLeft, FInt(0)) >= 0 THEN C13_YearsLeft ELSE FInt(0)
    IN  /\ lifeRet.op = "years_until_retirement" =>
              /\ lifeRet.value = years
              /\ FCmp(lifeRet.value, FInt(0)) >= 0
        /\ lifeRet.op = "weeks_until_retirement" =>
              /\ lifeRet.value >= 0
              /\ retired => lifeRet.value = 0
        /\ lifeRet.op = "vacation_weeks_remaining" =>
              /\ lifeRet.value >= 0
              /\ retired => lifeRet.value = 0
              /\ C8_Truncated(lifeRet.value,
                              FMul(years, FInt(life.vacation_weeks_per_year)))

\* vacation_weeks_remaining was read the day after the age passed retirement_age
C13_Witness ==
    /\ lifeRet.op = "vacation_weeks_remaining"
    /\ FCmp(C13_YearsLeft, FInt(0)) < 0
    /\ FCmp(age_years(life, lifeRet.at - 1), FInt(life.retirement_age)) <= 0
    /\ lifeRet.value = 0

\* the days left with a parent of age a, as C4 gives them: none to count when
\* the age is unknown, max(0, parent_life_expectancy - a) * visits_per_year *
\* days_per_visit when it is known
C14_DaysLeft(age) ==
    IF age = <<>> THEN 0
    ELSE (IF parents.parent_life_expectancy - age[1] > 0
          THEN parents.parent_life_expectancy - age[1] ELSE 0)
         * parents.visits_per_year * parents.days_per_visit

\* C14 as stated: total_days_left() returns a non-negative integer, the sum of
\* the days left with each parent, a parent of unknown age counting as 0: it
\* is 0 when both ages are unknown and the one parent's days left when only
\* one age is provided.
C14_TotalDaysLeft ==
    parentsRet.op = "total_days_left" =>
        /\ parentsRet.value >= 0
        /\ parentsRet.value = C14_DaysLeft(parents.father_age) + C14_DaysLeft(parents.mother_age)
        /\ (parents.father_age = <<>> /\ parents.mother_age = <<>>) => parentsRet.value = 0
        /\ (parents.father_age # <<>> /\ parents.mother_age = <<>>) =>
              parentsRet.value = C14_DaysLeft(parents.father_age)
        /\ (parents.father_age = <<>> /\ parents.mother_age # <<>>) =>
              parentsRet.value = C14_DaysLeft(parents.mother_age)

\* C15 as stated: the values one rendering pass reads from the objects of a
\* single calculate_all_stats() result are fixed for the pass: the
\* weeks_remaining read is max(0, total_weeks - the weeks_lived read), and the
\* weekend figure read after it agrees with it, even if the wall-clock date
\* advances between the reads.
C15_SnapshotConsistent ==
    /\ render.pc \in {"read_weeks_remaining", "done"} =>
          render.weeks_remaining[1] =
              (IF total_weeks(render.stats.life) - render.weeks_lived[1] > 0
               THEN total_weeks(render.stats.life) - render.weeks_lived[1] ELSE 0)
    /\ render.pc = "done" => render.weekends_remaining = render.weeks_remaining

\* what C16 says of one construction, from the file system before it to the
\* object and the file system after it
C16_Construction ==
    LET parses   == fs.parent = "dir" /\ fs.file.kind = "json" /\ fs.readable
        writable == \/ fs.parent = "dir" /\ fs.file.kind = "missing" /\ fs.dir_writable
                    \/ fs.parent = "dir" /\ fs.file.kind \in {"malformed", "json"} /\ fs.writable
                    \/ fs.parent = "missing" /\ fs.mkdir_ok
    IN  /\ parses =>
              /\ mmc'.raised = "none"
              /\ mmc'.config = fs.file.json
              /\ fs' = fs
        /\ ~parses =>
              /\ mmc'.raised = "none"
              /\ mmc'.config = DefaultConfig
              /\ writable => fs'.file = [kind |-> "json", json |-> DefaultConfig]
              /\ ~writable => fs'.file = fs.file

\* C16 as stated: constructing MementoMoriConfig never raises; a file that
\* exists and parses as JSON becomes the in-memory config and is left
\* unchanged; when the file is missing, unreadable or unparsable the
\* in-memory config is the built-in default and the file is (re)written with
\* it; a failure to write still leaves the defaults in memory.
C16_ConfigLoading == [][C16_Construction]_vars

====
